---- MODULE Spec2Model ----
(***************************************************************************)
(* Shape calculator: the Shape interface, its Circle and Rectangle         *)
(* variants, and the report driver (main).                                 *)
(*                                                                         *)
(* Three specifications:                                                   *)
(*   Spec        an arbitrary client of the class API: it constructs       *)
(*               Circles and Rectangles, calls setRadius and the const     *)
(*               member functions in any order.                            *)
(*   DriverSpec  main(), statement by statement, with the literal          *)
(*               constructor arguments of the demonstration sequence       *)
(*               generalised to inputs (the literals themselves included). *)
(*   DriverFair  DriverSpec with weak fairness: a sequential program that  *)
(*               can take its next statement takes it.                     *)
(*                                                                         *)
(* A double is a fixed-point number with Scale units per 1.0, or NaN.      *)
(* Every comparison with NaN is false, every arithmetic result on NaN is   *)
(* NaN, as in IEEE 754.                                                    *)
(***************************************************************************)
EXTENDS Integers, Sequences, FiniteSets, TLC

\* ---------------------------------------------------------------- bounds
Scale == 1000
MaxDim == 2
MaxObjs == 2

\* ---------------------------------------------------------------- double
D(n) == [nan |-> FALSE, v |-> n]
NaN == [nan |-> TRUE, v |-> 0]
Whole(n) == D(n * Scale)
Zero == Whole(0)

DLe(a, b) == ~a.nan /\ ~b.nan /\ a.v <= b.v
DGt(a, b) == ~a.nan /\ ~b.nan /\ a.v > b.v
DGe(a, b) == ~a.nan /\ ~b.nan /\ a.v >= b.v
DMul(a, b) == IF a.nan \/ b.nan THEN NaN ELSE D((a.v * b.v) \div Scale)
DAdd(a, b) == IF a.nan \/ b.nan THEN NaN ELSE D(a.v + b.v)

\* Argument values a caller may pass: a negative number, zero, the positive
\* whole numbers up to MaxDim, and NaN.
Dims == {Whole(n) : n \in -1..MaxDim} \cup {NaN}

\* ---------------------------------------------------------------- Circle
PI == D(3142)

\* Variant of validateRadius that rejects negative values only.
validateRadius_negOnly(r) == ~r.nan /\ r.v < 0

\* validateRadius: TRUE iff it throws std::invalid_argument.
validateRadius(r) == DLe(r, Zero)

InvalidArgument == "Radius must be positive"

\* Circle::Circle: the member is initialised, then validated; a throw leaves
\* no object behind.
Circle(radius) ==
    [threw |-> validateRadius(radius),
     obj   |-> [kind |-> "Circle", radius_ |-> radius]]

Circle_area(self) == DMul(DMul(PI, self.radius_), self.radius_)

Circle_perimeter(self) == DMul(DMul(Whole(2), PI), self.radius_)

Circle_getName(self) == "Circle"

Circle_getDescription(self) ==
    [s |-> "Circle with radius ", ds |-> <<self.radius_>>]

Circle_getRadius(self) == self.radius_

\* Variant of setRadius that commits before it validates.
Circle_setRadius_commitFirst(self, radius) ==
    [threw |-> validateRadius(radius), self |-> [self EXCEPT !.radius_ = radius]]

\* Circle::setRadius: validate, then commit.
Circle_setRadius(self, radius) ==
    IF validateRadius(radius)
    THEN [threw |-> TRUE, self |-> self]
    ELSE [threw |-> FALSE, self |-> [self EXCEPT !.radius_ = radius]]

Circle_getDiameter(self) == DMul(Whole(2), self.radius_)

\* ------------------------------------------------------------- Rectangle
\* Rectangle.cpp is not among the sources; the bodies follow the
\* specification (no validation, area = w*h, perimeter = 2*(w+h)).
Rectangle_validating(width, height) ==
    [threw |-> DLe(width, Zero) \/ DLe(height, Zero),
     obj   |-> [kind |-> "Rectangle", width_ |-> width, height_ |-> height]]

Rectangle(width, height) ==
    [threw |-> FALSE,
     obj   |-> [kind |-> "Rectangle", width_ |-> width, height_ |-> height]]

Rectangle_area(self) == DMul(self.width_, self.height_)

Rectangle_perimeter(self) == DMul(Whole(2), DAdd(self.width_, self.height_))

Rectangle_getName(self) == "Rectangle"

Rectangle_getDescription(self) ==
    [s |-> "Rectangle ", ds |-> <<self.width_, self.height_>>]

\* ------------------------------------------------- Shape (virtual calls)
Shape_area(self) ==
    IF self.kind = "Circle" THEN Circle_area(self) ELSE Rectangle_area(self)

Shape_perimeter(self) ==
    IF self.kind = "Circle" THEN Circle_perimeter(self)
    ELSE Rectangle_perimeter(self)

Shape_getName(self) ==
    IF self.kind = "Circle" THEN Circle_getName(self)
    ELSE Rectangle_getName(self)

Shape_getDescription(self) ==
    IF self.kind = "Circle" THEN Circle_getDescription(self)
    ELSE Rectangle_getDescription(self)

\* ----------------------------------------------------------------- state
VARIABLES
    heap,       \* live Shape instances held by the API client
    last,       \* the client's most recent call and what it observed
    pc,         \* main: position
    args,       \* main: constructor arguments of the demonstration sequence
    shapes,     \* main: std::vector<std::unique_ptr<Shape>>
    out,        \* main: lines written to std::cout
    err,        \* main: lines written to std::cerr
    exitCode,   \* main: return value, -1 while running
    totalArea,  \* main: the accumulator
    it,         \* main: position of the range-for in progress
    caught      \* main: e.what() of the exception in flight, "" if none

apiVars == <<heap, last>>
mainVars == <<pc, args, shapes, out, err, exitCode, totalArea, it, caught>>
vars == <<heap, last, pc, args, shapes, out, err, exitCode, totalArea, it, caught>>

Call(op, idx, as, threw, rs, rd) ==
    [op |-> op, idx |-> idx, args |-> as, threw |-> threw, rs |-> rs, rd |-> rd]

NoCall == Call("none", 0, <<>>, FALSE, "", <<>>)

\* The literals of main.cpp.
LitCircle1 == 5
LitRectW == 4
LitRectH == 6
LitCircle2 == 3

RealArgs ==
    [c1 |-> Whole(LitCircle1), w |-> Whole(LitRectW),
     h |-> Whole(LitRectH), c2 |-> Whole(LitCircle2)]

ArgSpace ==
    [c1 : Dims \cup {RealArgs.c1}, w : Dims \cup {RealArgs.w},
     h : Dims \cup {RealArgs.h}, c2 : Dims \cup {RealArgs.c2}]

ApiInit ==
    /\ heap = <<>>
    /\ last = NoCall

MainInit(a) ==
    /\ pc = "start"
    /\ args = a
    /\ shapes = <<>>
    /\ out = <<>>
    /\ err = <<>>
    /\ exitCode = -1
    /\ totalArea = Zero
    /\ it = 0
    /\ caught = ""

Init == ApiInit /\ MainInit(RealArgs)

\* ------------------------------------------------------ API client steps
IsCircle(i) == i \in 1..Len(heap) /\ heap[i].kind = "Circle"

CallCircle(r) ==
    /\ Len(heap) < MaxObjs
    /\ LET c == Circle(r) IN
       /\ heap' = IF c.threw THEN heap ELSE Append(heap, c.obj)
       /\ last' = Call("Circle", 0, <<r>>, c.threw, "", <<>>)
    /\ UNCHANGED mainVars

CallRectangle(w, h) ==
    /\ Len(heap) < MaxObjs
    /\ LET c == Rectangle(w, h) IN
       /\ heap' = IF c.threw THEN heap ELSE Append(heap, c.obj)
       /\ last' = Call("Rectangle", 0, <<w, h>>, c.threw, "", <<>>)
    /\ UNCHANGED mainVars

CallSetRadius(i, r) ==
    /\ IsCircle(i)
    /\ LET c == Circle_setRadius(heap[i], r) IN
       /\ heap' = [heap EXCEPT ![i] = c.self]
       /\ last' = Call("setRadius", i, <<r>>, c.threw, "", <<>>)
    /\ UNCHANGED mainVars

CallGetRadius(i) ==
    /\ IsCircle(i)
    /\ last' = Call("getRadius", i, <<>>, FALSE, "", <<Circle_getRadius(heap[i])>>)
    /\ UNCHANGED <<heap, mainVars>>

\* Variant of the getDiameter call that stores the doubled value.
CallGetDiameter_storing(i) ==
    /\ IsCircle(i)
    /\ last' = Call("getDiameter", i, <<>>, FALSE, "", <<Circle_getDiameter(heap[i])>>)
    /\ heap' = [heap EXCEPT ![i].radius_ = Circle_getDiameter(heap[i])]
    /\ UNCHANGED mainVars

CallGetDiameter(i) ==
    /\ IsCircle(i)
    /\ last' = Call("getDiameter", i, <<>>, FALSE, "", <<Circle_getDiameter(heap[i])>>)
    /\ UNCHANGED <<heap, mainVars>>

CallArea(i) ==
    /\ i \in 1..Len(heap)
    /\ last' = Call("area", i, <<>>, FALSE, "", <<Shape_area(heap[i])>>)
    /\ UNCHANGED <<heap, mainVars>>

CallPerimeter(i) ==
    /\ i \in 1..Len(heap)
    /\ last' = Call("perimeter", i, <<>>, FALSE, "", <<Shape_perimeter(heap[i])>>)
    /\ UNCHANGED <<heap, mainVars>>

CallGetName(i) ==
    /\ i \in 1..Len(heap)
    /\ last' = Call("getName", i, <<>>, FALSE, Shape_getName(heap[i]), <<>>)
    /\ UNCHANGED <<heap, mainVars>>

CallGetDescription(i) ==
    /\ i \in 1..Len(heap)
    /\ LET d == Shape_getDescription(heap[i]) IN
       last' = Call("getDescription", i, <<>>, FALSE, d.s, d.ds)
    /\ UNCHANGED <<heap, mainVars>>

Next ==
    \/ \E r \in Dims : CallCircle(r)
    \/ \E w \in Dims, h \in Dims : CallRectangle(w, h)
    \/ \E i \in 1..MaxObjs, r \in Dims : CallSetRadius(i, r)
    \/ \E i \in 1..MaxObjs : CallGetRadius(i)
    \/ \E i \in 1..MaxObjs : CallGetDiameter(i)
    \/ \E i \in 1..MaxObjs : CallArea(i)
    \/ \E i \in 1..MaxObjs : CallPerimeter(i)
    \/ \E i \in 1..MaxObjs : CallGetName(i)
    \/ \E i \in 1..MaxObjs : CallGetDescription(i)

Spec == Init /\ [][Next]_vars

\* ------------------------------------------------------------------ main
Line(kind, s, ds) == [kind |-> kind, s |-> s, ds |-> ds]

\* Variant of printShapeDetails that writes the perimeter before the area.
printShapeDetails_swapped(shape) ==
    << Line("name", Shape_getName(shape), <<>>),
       Line("perimeter", "", <<Shape_perimeter(shape)>>),
       Line("area", "", <<Shape_area(shape)>>),
       Line("description", Shape_getDescription(shape).s,
            Shape_getDescription(shape).ds),
       Line("blank", "", <<>>) >>

\* printShapeDetails: the five lines it writes to std::cout, in order.
printShapeDetails(shape) ==
    << Line("name", Shape_getName(shape), <<>>),
       Line("area", "", <<Shape_area(shape)>>),
       Line("perimeter", "", <<Shape_perimeter(shape)>>),
       Line("description", Shape_getDescription(shape).s,
            Shape_getDescription(shape).ds),
       Line("blank", "", <<>>) >>

\* main.cpp 23-24: the banner, written before the try block.
MainBanner ==
    /\ pc = "start"
    /\ out' = out \o << Line("banner", "Shape Calculator v1.0", <<>>),
                        Line("banner", "=====================", <<>>),
                        Line("blank", "", <<>>) >>
    /\ pc' = "push1"
    /\ UNCHANGED <<args, shapes, err, exitCode, totalArea, it, caught, apiVars>>

\* main.cpp 30: shapes.push_back(std::make_unique<Circle>(5.0))
MainPush1 ==
    /\ pc = "push1"
    /\ LET c == Circle(args.c1) IN
       IF c.threw
       THEN /\ caught' = InvalidArgument
            /\ pc' = "catch"
            /\ UNCHANGED shapes
       ELSE /\ shapes' = Append(shapes, c.obj)
            /\ pc' = "push2"
            /\ UNCHANGED caught
    /\ UNCHANGED <<args, out, err, exitCode, totalArea, it, apiVars>>

\* Variant of the second push that prints each shape as soon as it is built.
MainPush2_eager ==
    /\ pc = "push2"
    /\ LET c == Rectangle(args.w, args.h) IN
       IF c.threw
       THEN /\ caught' = InvalidArgument
            /\ pc' = "catch"
            /\ UNCHANGED <<shapes, out>>
       ELSE /\ shapes' = Append(shapes, c.obj)
            /\ out' = out \o printShapeDetails(shapes[1]) \o printShapeDetails(c.obj)
            /\ pc' = "push3"
            /\ UNCHANGED caught
    /\ UNCHANGED <<args, err, exitCode, totalArea, it, apiVars>>

\* main.cpp 31: shapes.push_back(std::make_unique<Rectangle>(4.0, 6.0))
MainPush2 ==
    /\ pc = "push2"
    /\ LET c == Rectangle(args.w, args.h) IN
       IF c.threw
       THEN /\ caught' = InvalidArgument
            /\ pc' = "catch"
            /\ UNCHANGED shapes
       ELSE /\ shapes' = Append(shapes, c.obj)
            /\ pc' = "push3"
            /\ UNCHANGED caught
    /\ UNCHANGED <<args, out, err, exitCode, totalArea, it, apiVars>>

\* main.cpp 32: shapes.push_back(std::make_unique<Circle>(3.0)); on success
\* control reaches the first range-for.
MainPush3 ==
    /\ pc = "push3"
    /\ LET c == Circle(args.c2) IN
       IF c.threw
       THEN /\ caught' = InvalidArgument
            /\ pc' = "catch"
            /\ UNCHANGED <<shapes, it>>
       ELSE /\ shapes' = Append(shapes, c.obj)
            /\ pc' = "print"
            /\ it' = 1
            /\ UNCHANGED caught
    /\ UNCHANGED <<args, out, err, exitCode, totalArea, apiVars>>

\* main.cpp 35-37: one iteration of the printing loop.
MainPrintLoop ==
    /\ pc = "print"
    /\ it <= Len(shapes)
    /\ out' = out \o printShapeDetails(shapes[it])
    /\ it' = it + 1
    /\ UNCHANGED <<pc, args, shapes, err, exitCode, totalArea, caught, apiVars>>

\* main.cpp 40: double totalArea = 0.0, after the printing loop has ended.
MainInitTotal ==
    /\ pc = "print"
    /\ it > Len(shapes)
    /\ totalArea' = Zero
    /\ it' = 1
    /\ pc' = "sum"
    /\ UNCHANGED <<args, shapes, out, err, exitCode, caught, apiVars>>

\* Variant of the accumulating loop that assigns instead of adding.
MainSumLoop_assign ==
    /\ pc = "sum"
    /\ it <= Len(shapes)
    /\ totalArea' = Shape_area(shapes[it])
    /\ it' = it + 1
    /\ UNCHANGED <<pc, args, shapes, out, err, exitCode, caught, apiVars>>

\* main.cpp 41-43: one iteration of the accumulating loop.
MainSumLoop ==
    /\ pc = "sum"
    /\ it <= Len(shapes)
    /\ totalArea' = DAdd(totalArea, Shape_area(shapes[it]))
    /\ it' = it + 1
    /\ UNCHANGED <<pc, args, shapes, out, err, exitCode, caught, apiVars>>

\* main.cpp 44: the total line.
MainPrintTotal ==
    /\ pc = "sum"
    /\ it > Len(shapes)
    /\ out' = Append(out, Line("total", "Total area of all shapes: ", <<totalArea>>))
    /\ pc' = "return0"
    /\ UNCHANGED <<args, shapes, err, exitCode, totalArea, it, caught, apiVars>>

\* Variant of the handler that reports the error and returns 0.
MainCatch_status0 ==
    /\ pc = "catch"
    /\ err' = Append(err, Line("error", caught, <<>>))
    /\ exitCode' = 0
    /\ pc' = "exit"
    /\ UNCHANGED <<args, shapes, out, totalArea, it, caught, apiVars>>

\* main.cpp 46-48: the handler writes "Error: " << e.what() to std::cerr and
\* returns 1.
MainCatch ==
    /\ pc = "catch"
    /\ err' = Append(err, Line("error", caught, <<>>))
    /\ exitCode' = 1
    /\ pc' = "exit"
    /\ UNCHANGED <<args, shapes, out, totalArea, it, caught, apiVars>>

\* main.cpp 51: return 0.
MainReturn0 ==
    /\ pc = "return0"
    /\ exitCode' = 0
    /\ pc' = "exit"
    /\ UNCHANGED <<args, shapes, out, err, totalArea, it, caught, apiVars>>

DriverInit == ApiInit /\ \E a \in ArgSpace : MainInit(a)

DriverNext ==
    \/ MainBanner
    \/ MainPush1
    \/ MainPush2
    \/ MainPush3
    \/ MainPrintLoop
    \/ MainInitTotal
    \/ MainSumLoop
    \/ MainPrintTotal
    \/ MainCatch
    \/ MainReturn0

DriverSpec == DriverInit /\ [][DriverNext]_vars

DriverFair == DriverSpec /\ WF_vars(DriverNext)


\* ================================================================ claims
IsDetail(l) == l.kind \in {"name", "area", "perimeter", "description"}
Kinds(seq) == [k \in 1..Len(seq) |-> seq[k].kind]
Invalid(r) == DLe(r, Zero)
BannerLen == Len(<<"Shape Calculator v1.0", "=====================", "">>)

\* C1: every live Circle has radius > 0 in every state, whatever sequence of
\* constructions, setRadius calls and reads led there.
C1_RadiusStrictlyPositive ==
    \A i \in 1..Len(heap) :
        heap[i].kind = "Circle" => DGt(heap[i].radius_, Zero)

\* C2: constructing a Circle in main succeeds for every radius > 0 (the
\* instance is appended to the collection) and for every radius <= 0 raises
\* the invalid-argument error, leaving the collection as it was.
C2_Outcome(r) ==
    /\ DGt(r, Zero) =>
          /\ shapes' = Append(shapes, [kind |-> "Circle", radius_ |-> r])
          /\ caught' = ""
          /\ pc' # "catch"
    /\ Invalid(r) =>
          /\ shapes' = shapes
          /\ caught' = "Radius must be positive"
          /\ pc' = "catch"

C2_CircleConstruction ==
    [][ /\ pc = "push1" => C2_Outcome(args.c1)
        /\ pc = "push3" => C2_Outcome(args.c2) ]_vars

C2_Witness ==
    /\ pc = "catch"
    /\ Len(shapes) = 2
    /\ DGt(args.c1, Zero)
    /\ shapes[1] = [kind |-> "Circle", radius_ |-> args.c1]
    /\ Invalid(args.c2)

\* C3: setRadius(r) with r <= 0 throws and the Circle keeps the radius it had;
\* getRadius afterwards returns the value from before the call.
C3_FailedSetRadiusKeepsRadius ==
    [][ (last'.op = "setRadius" /\ Invalid(last'.args[1])) =>
            /\ last'.threw
            /\ heap' = heap
            /\ Circle_getRadius(heap'[last'.idx]) = Circle_getRadius(heap[last'.idx])
      ]_vars

C3_Witness ==
    /\ last.op = "setRadius"
    /\ last.threw
    /\ Invalid(last.args[1])
    /\ DGt(heap[last.idx].radius_, Zero)

\* C4: area() and perimeter() of every constructed shape, Circle or
\* Rectangle, are >= 0.
C4_AreaPerimeterNonNegative ==
    \A i \in 1..Len(heap) :
        /\ DGe(Shape_area(heap[i]), Zero)
        /\ DGe(Shape_perimeter(heap[i]), Zero)

\* C5: main terminates; it returns 1 exactly when a constructor of the
\* sequence threw, with the exception's message on std::cerr, and returns 0
\* with nothing on std::cerr otherwise.
C5_ExitContract ==
    /\ exitCode \in {0, 1}
    /\ (exitCode = 1) <=> (Invalid(args.c1) \/ Invalid(args.c2))
    /\ (exitCode = 1) <=> (caught # "")
    /\ exitCode = 1 => err = << Line("error", "Radius must be positive", <<>>) >>
    /\ exitCode = 0 => err = <<>>

C5_DriverExit ==
    /\ <>(pc = "exit")
    /\ [](pc = "exit" => C5_ExitContract)
    /\ [](pc # "exit" => exitCode = -1 /\ err = <<>>)

C5_Witness ==
    /\ pc = "exit"
    /\ exitCode = 1
    /\ Len(err) = 1
    /\ Invalid(args.c2)

\* C6: in a run in which a construction fails validation, std::cout never
\* holds a per-shape detail line or the total line, whichever construction
\* it is that fails.
C6_NoReportOnFailure ==
    (Invalid(args.c1) \/ Invalid(args.c2) \/ caught # "" \/ exitCode = 1) =>
        \A k \in 1..Len(out) : ~IsDetail(out[k]) /\ out[k].kind # "total"

C6_Witness ==
    /\ pc = "exit"
    /\ exitCode = 1
    /\ Len(shapes) = 2
    /\ Len(out) = BannerLen

\* C7: the report follows the collection's order: shape k's name, area,
\* perimeter, description and blank line occupy the k-th block of five lines
\* after the banner, and the total line is written once, last, after the
\* block of the last shape.
C7_Printed ==
    CASE pc = "print" -> it - 1
      [] pc \in {"sum", "return0"} -> Len(shapes)
      [] pc = "exit" /\ exitCode = 0 -> Len(shapes)
      [] OTHER -> 0

C7_TotalWritten == pc = "return0" \/ (pc = "exit" /\ exitCode = 0)

C7_ReportOrder ==
    pc # "start" =>
        /\ Len(out) = BannerLen + 5 * C7_Printed + (IF C7_TotalWritten THEN 1 ELSE 0)
        /\ \A k \in 1..C7_Printed :
              LET b == BannerLen + 5 * (k - 1) IN
              /\ out[b + 1] = Line("name", Shape_getName(shapes[k]), <<>>)
              /\ out[b + 2] = Line("area", "", <<Shape_area(shapes[k])>>)
              /\ out[b + 3] = Line("perimeter", "", <<Shape_perimeter(shapes[k])>>)
              /\ out[b + 4].kind = "description"
              /\ out[b + 4].s = Shape_getDescription(shapes[k]).s
              /\ out[b + 4].ds = Shape_getDescription(shapes[k]).ds
              /\ out[b + 5] = Line("blank", "", <<>>)
        /\ Cardinality({k \in 1..Len(out) : out[k].kind = "total"})
               = (IF C7_TotalWritten THEN 1 ELSE 0)
        /\ C7_TotalWritten => out[Len(out)].kind = "total"

C7_Witness ==
    /\ pc = "exit"
    /\ exitCode = 0
    /\ Kinds(shapes) = <<"Circle", "Rectangle", "Circle">>
    /\ Len(out) = BannerLen + 16

\* C8: the total written is the sum, from 0 and in insertion order, of area()
\* over the shapes of the collection, each once; it is the sum of the area
\* values written in the report's detail lines.
RECURSIVE C8_SumAreas(_, _)
C8_SumAreas(seq, n) ==
    IF n = 0 THEN Zero ELSE DAdd(C8_SumAreas(seq, n - 1), Shape_area(seq[n]))

RECURSIVE C8_SumPrinted(_)
C8_SumPrinted(n) ==
    IF n = 0 THEN Zero
    ELSE DAdd(C8_SumPrinted(n - 1), out[BannerLen + 5 * (n - 1) + 2].ds[1])

C8_TotalIsSumOfAreas ==
    /\ pc = "sum" => totalArea = C8_SumAreas(shapes, it - 1)
    /\ C7_TotalWritten =>
          /\ out[Len(out)].kind = "total"
          /\ out[Len(out)].ds = << C8_SumAreas(shapes, Len(shapes)) >>
          /\ out[Len(out)].ds = << C8_SumPrinted(Len(shapes)) >>

C8_Witness ==
    /\ pc = "exit"
    /\ exitCode = 0
    /\ args = RealArgs
    /\ out[Len(out)].kind = "total"
    /\ DGt(out[Len(out)].ds[1], Shape_area(shapes[1]))

\* C9: a read (area, perimeter, getName, getDescription, getRadius,
\* getDiameter) leaves every instance as it was, and what it returned is what
\* the same call returns when repeated on the instance.
C9_IsRead(op) ==
    op \in {"area", "perimeter", "getName", "getDescription", "getRadius", "getDiameter"}

C9_Repeat(op, self) ==
    CASE op = "area" -> <<"", <<Shape_area(self)>> >>
      [] op = "perimeter" -> <<"", <<Shape_perimeter(self)>> >>
      [] op = "getName" -> <<Shape_getName(self), <<>> >>
      [] op = "getDescription" ->
            <<Shape_getDescription(self).s, Shape_getDescription(self).ds>>
      [] op = "getRadius" -> <<"", <<Circle_getRadius(self)>> >>
      [] op = "getDiameter" -> <<"", <<Circle_getDiameter(self)>> >>

C9_ReadsHaveNoEffect ==
    [][ C9_IsRead(last'.op) =>
            /\ heap' = heap
            /\ <<last'.rs, last'.rd>> = C9_Repeat(last'.op, heap'[last'.idx])
            /\ (last.op = last'.op /\ last.idx = last'.idx) =>
                   (last'.rs = last.rs /\ last'.rd = last.rd)
      ]_vars

C9_Witness ==
    /\ last.op = "getDiameter"
    /\ Len(heap) = 2
    /\ last.rd = << Whole(4) >>

\* C10: Rectangle construction succeeds for width and height of any sign,
\* and the instance has area = width*height, perimeter = 2*(width+height).
C10_RectangleAnySign ==
    [][ last'.op = "Rectangle" =>
            LET w == last'.args[1]
                h == last'.args[2]
                r == heap'[Len(heap')]
            IN  /\ ~last'.threw
                /\ heap' = Append(heap, r)
                /\ r.kind = "Rectangle" /\ r.width_ = w /\ r.height_ = h
                /\ (~w.nan /\ ~h.nan) =>
                      /\ Shape_area(r) = D((w.v * h.v) \div Scale)
                      /\ Shape_perimeter(r) = D(2 * (w.v + h.v))
      ]_vars

C10_Witness ==
    /\ last.op = "Rectangle"
    /\ ~last.threw
    /\ last.args[1].v < 0
    /\ last.args[2].v > 0
    /\ heap[Len(heap)].kind = "Rectangle"
    /\ Rectangle_area(heap[Len(heap)]).v < 0

====
